---- MODULE Spec2Model ----
(***************************************************************************)
(* A model of src/main.rs: a Redis-compatible key-value server.            *)
(*                                                                         *)
(* Bytes are their integer codes; a byte string (Vec<u8>, &[u8], String)   *)
(* is a sequence of bytes.  Every alphabet used below is 7-bit ASCII, for  *)
(* which String::from_utf8 succeeds and is the identity on the bytes.      *)
(***************************************************************************)
EXTENDS Integers, Sequences, FiniteSets, TLC

(***************************************************************************)
(* Byte literals of the source.                                            *)
(***************************************************************************)
CR == 13
LF == 10
PLUS == 43
MINUS == 45
COLON == 58
DOLLAR == 36
STAR == 42

CRLF == <<CR, LF>>

(* b"PING", b"ECHO", ... the keywords the resolver compares against. *)
S_PING == <<80, 73, 78, 71>>
S_ECHO == <<69, 67, 72, 79>>
S_KEYS == <<75, 69, 89, 83>>
S_GET == <<71, 69, 84>>
S_SET == <<83, 69, 84>>
S_PX == <<80, 88>>
S_CONFIG == <<67, 79, 78, 70, 73, 71>>
S_OK == <<79, 75>>
S_dir == <<100, 105, 114>>
S_dbfilename == <<100, 98, 102, 105, 108, 101, 110, 97, 109, 101>>

(* The literal replies written by handle. *)
PONG == <<PLUS, 80, 79, 78, 71, CR, LF>>
NullBulk == <<DOLLAR, MINUS, 49, CR, LF>>
ErrorReply == <<MINUS, 69, 114, 114, 111, 114, CR, LF>>

(* Option::None, for an expiry, a PX argument or a config setting. *)
None == "None"

(***************************************************************************)
(* Slices.  Rust's stream[a..b] with 0-based a, b is Slice(stream, a, b);  *)
(* the callers check the bounds that make Rust panic.                      *)
(***************************************************************************)
Slice(s, a, b) == SubSeq(s, a + 1, b)

SliceFrom(s, a) == SubSeq(s, a + 1, Len(s))

RECURSIVE FlattenSeq(_)
FlattenSeq(ss) ==
    IF ss = <<>> THEN <<>> ELSE Head(ss) \o FlattenSeq(Tail(ss))

(***************************************************************************)
(* format!("{}", n) for an unsigned n: its decimal digits.                 *)
(***************************************************************************)
RECURSIVE FormatNat(_)
FormatNat(n) ==
    IF n < 10 THEN <<48 + n>> ELSE FormatNat(n \div 10) \o <<48 + (n % 10)>>

IsDigit(b) == b >= 48 /\ b <= 57

RECURSIVE DigitsValue(_, _)
DigitsValue(s, acc) ==
    IF s = <<>> THEN acc ELSE DigitsValue(Tail(s), acc * 10 + (Head(s) - 48))

(***************************************************************************)
(* str::parse::<usize>() and ::<u64>(): an optional leading '+', then one  *)
(* or more decimal digits.  Result: -1 for Err, the value otherwise.  The  *)
(* tokens of the model are far below the overflow limit.                   *)
(***************************************************************************)
ParseUnsigned(s) ==
    LET body == IF s # <<>> /\ Head(s) = PLUS THEN Tail(s) ELSE s
    IN  IF body # <<>> /\ \A i \in 1..Len(body) : IsDigit(body[i])
        THEN DigitsValue(body, 0)
        ELSE -1

(***************************************************************************)
(* str::parse::<i32>(): an optional leading '+' or '-', then digits.       *)
(* Result: [ok |-> BOOLEAN, val |-> Int].                                  *)
(***************************************************************************)
ParseI32(s) ==
    LET neg  == s # <<>> /\ Head(s) = MINUS
        body == IF s # <<>> /\ Head(s) \in {PLUS, MINUS} THEN Tail(s) ELSE s
    IN  IF body # <<>> /\ \A i \in 1..Len(body) : IsDigit(body[i])
        THEN [ok |-> TRUE,
              val |-> IF neg THEN 0 - DigitsValue(body, 0) ELSE DigitsValue(body, 0)]
        ELSE [ok |-> FALSE, val |-> 0]

(* An upper-casing that changes nothing. *)
MutToUppercase(s) == s

(* char::to_uppercase on an ASCII string. *)
to_uppercase(s) ==
    [i \in 1..Len(s) |-> IF s[i] >= 97 /\ s[i] <= 122 THEN s[i] - 32 ELSE s[i]]

(***************************************************************************)
(* The RESP encoder.                                                       *)
(***************************************************************************)
serialize_to_simple_string(s) == <<PLUS>> \o s \o CRLF

serialize_to_bulk_string(s) ==
    <<DOLLAR>> \o FormatNat(Len(s)) \o CRLF \o s \o CRLF

serialize_to_array(strings) ==
    <<STAR>> \o FormatNat(Len(strings)) \o CRLF
        \o FlattenSeq([i \in 1..Len(strings) |-> serialize_to_bulk_string(strings[i])])

(***************************************************************************)
(* split_by_line: the 0-based positions of every "\r\n" window, then the   *)
(* pieces before, between and after them, empty pieces dropped.  Indexing  *)
(* line_positions[0] panics when the stream holds no "\r\n".               *)
(* Result: [ok |-> FALSE] for the panic, else [ok |-> TRUE, lines |-> ..]. *)
(***************************************************************************)
LinePositions(stream) ==
    {i \in 0..(Len(stream) - 2) : stream[i + 1] = CR /\ stream[i + 2] = LF}

(* The elements of a finite set of numbers in increasing order. *)
SortedSeq(S) ==
    [i \in 1..Cardinality(S) |->
        CHOOSE x \in S : Cardinality({y \in S : y < x}) = i - 1]

RECURSIVE DropEmpty(_)
DropEmpty(ls) ==
    IF ls = <<>> THEN <<>>
    ELSE IF Head(ls) = <<>> THEN DropEmpty(Tail(ls))
         ELSE <<Head(ls)>> \o DropEmpty(Tail(ls))

split_at(stream, lp) ==
    IF Len(lp) = 0 THEN [ok |-> FALSE, lines |-> <<>>]
    ELSE [ok |-> TRUE,
          lines |-> DropEmpty(
              <<Slice(stream, 0, lp[1])>>
                  \o [j \in 1..(Len(lp) - 1) |-> Slice(stream, lp[j] + 2, lp[j + 1])]
                  \o <<SliceFrom(stream, lp[Len(lp)] + 2)>>)]

split_by_line(stream) == split_at(stream, SortedSeq(LinePositions(stream)))

(***************************************************************************)
(* RedisObject values.                                                     *)
(***************************************************************************)
SimpleString(s) == [type |-> "SimpleString", str |-> s]
IntegerObj(v) == [type |-> "Integer", val |-> v]
BulkString(n, s) == [type |-> "BulkString", size |-> n, str |-> s]
Array(objs) == [type |-> "Array", elems |-> objs]

(***************************************************************************)
(* Results of parse_object / parse_array:                                  *)
(*   Ok((Some(object), consumed)), Ok((None, consumed)), Err(()), or a     *)
(*   panic (unimplemented!, unwrap, expect, assert!, slice out of range),  *)
(*   which unwinds the calling thread.                                     *)
(***************************************************************************)
OkSome(o, c) == [tag |-> "some", obj |-> o, consumed |-> c]
OkNone(c) == [tag |-> "none", obj |-> None, consumed |-> c]
ParseErr == [tag |-> "err", obj |-> None, consumed |-> 0]
ParsePanic == [tag |-> "panic", obj |-> None, consumed |-> 0]

(* DataType::from_byte: unimplemented!() for any other byte. *)
from_byte(b) ==
    CASE b = PLUS   -> "SimpleString"
      [] b = MINUS  -> "SimpleErr"
      [] b = COLON  -> "Integer"
      [] b = DOLLAR -> "BulkString"
      [] b = STAR   -> "Array"
      [] OTHER      -> "unimplemented"

(* The SimpleString arm of parse_object: consumed is the token's length. *)
simple_from_parts(parts) ==
    IF ~parts.ok \/ parts.lines = <<>> THEN ParsePanic
    ELSE OkSome(SimpleString(parts.lines[1]), Len(parts.lines[1]))

parse_simple_string(rest) == simple_from_parts(split_by_line(rest))

(* The Integer arm: parse::<i32>().unwrap() panics on a non-numeric token. *)
integer_from_token(token, r) ==
    IF ~r.ok THEN ParsePanic ELSE OkSome(IntegerObj(r.val), Len(token))

integer_from_parts(parts) ==
    IF ~parts.ok \/ parts.lines = <<>> THEN ParsePanic
    ELSE integer_from_token(parts.lines[1], ParseI32(parts.lines[1]))

parse_integer(rest) == integer_from_parts(split_by_line(rest))

(***************************************************************************)
(* The accepted length of a bulk string's payload, given the declared      *)
(* size: assert!(string.len() == size).                                    *)
(***************************************************************************)
BulkLengthOk(string, size) == Len(string) = size

(***************************************************************************)
(* The BulkString arm: parts[0] is the length token, parts[1] the payload; *)
(* a non-numeric token, a missing parts[1] and a length mismatch panic.    *)
(* consumed = parts[0].len() + parts[1].len() + 3.                         *)
(***************************************************************************)
bulk_from_size(lines, size) ==
    IF size < 0 THEN ParsePanic
    ELSE IF Len(lines) < 2 THEN ParsePanic
    ELSE IF ~BulkLengthOk(lines[2], size) THEN ParsePanic
    ELSE OkSome(BulkString(size, lines[2]), Len(lines[1]) + Len(lines[2]) + 3)

bulk_from_parts(parts) ==
    IF ~parts.ok \/ parts.lines = <<>> THEN ParsePanic
    ELSE bulk_from_size(parts.lines, ParseUnsigned(parts.lines[1]))

parse_bulk_string(rest) == bulk_from_parts(split_by_line(rest))

RECURSIVE parse_object(_)
RECURSIVE parse_array_loop(_, _, _)

(***************************************************************************)
(* One turn of parse_array's loop, r being parse_object(&stream[pos..]):   *)
(* an object is pushed and the loop goes on unless pos > stream.len(); a   *)
(* "none" goes on unless pos >= stream.len(); Err is returned.             *)
(***************************************************************************)
array_step(stream, pos, objects, r) ==
    CASE r.tag = "some" ->
            IF pos + r.consumed > Len(stream)
            THEN OkSome(Array(Append(objects, r.obj)), pos + r.consumed)
            ELSE parse_array_loop(stream, pos + r.consumed, Append(objects, r.obj))
      [] r.tag = "none" ->
            IF pos + r.consumed >= Len(stream)
            THEN OkSome(Array(objects), pos + r.consumed)
            ELSE parse_array_loop(stream, pos + r.consumed, objects)
      [] r.tag = "err" -> ParseErr
      [] OTHER -> ParsePanic

(***************************************************************************)
(* parse_array's loop: decode objects from stream[pos..] until pos reaches *)
(* the end of the stream.  The declared element count is never consulted.  *)
(***************************************************************************)
parse_array_loop(stream, pos, objects) ==
    IF pos > Len(stream) THEN ParsePanic
    ELSE array_step(stream, pos, objects, parse_object(SliceFrom(stream, pos)))

(***************************************************************************)
(* parse_array: the count token must parse (expect), its value is unused;  *)
(* decoding starts after the first non-empty line.                         *)
(***************************************************************************)
array_from_parts(stream, parts) ==
    IF ~parts.ok \/ parts.lines = <<>> THEN ParsePanic
    ELSE IF ParseUnsigned(parts.lines[1]) < 0 THEN ParsePanic
    ELSE parse_array_loop(stream, Len(parts.lines[1]) + 2, <<>>)

parse_array(stream) == array_from_parts(stream, split_by_line(stream))

(* The arm of parse_object that the tag byte selects. *)
parse_tagged(t, rest) ==
    CASE t = "Array"        -> parse_array(rest)
      [] t = "SimpleString" -> parse_simple_string(rest)
      [] t = "Integer"      -> parse_integer(rest)
      [] t = "BulkString"   -> parse_bulk_string(rest)
      [] OTHER              -> ParsePanic

(***************************************************************************)
(* parse_object: stream[0..2] panics on fewer than two bytes; a leading    *)
(* "\r\n" is "no value here"; otherwise the tag byte selects the arm.      *)
(***************************************************************************)
parse_object(stream) ==
    IF Len(stream) < 2 THEN ParsePanic
    ELSE IF Slice(stream, 0, 2) = CRLF THEN OkNone(2)
    ELSE parse_tagged(from_byte(stream[1]), SliceFrom(stream, 1))

(* RESPParser::parse: the consumed count is dropped. *)
parse_result(r) ==
    CASE r.tag = "some"  -> [tag |-> "ok", obj |-> r.obj]
      [] r.tag = "panic" -> [tag |-> "panic", obj |-> None]
      [] OTHER           -> [tag |-> "err", obj |-> None]

parse(stream) == parse_result(parse_object(stream))

(***************************************************************************)
(* Command values.  NoPx is Option::None for Set's expiry-milliseconds.    *)
(***************************************************************************)
NoPx == -1

CmdPing == [op |-> "Ping", key |-> <<>>, value |-> <<>>, px |-> NoPx]
CmdEcho(s) == [op |-> "Echo", key |-> s, value |-> <<>>, px |-> NoPx]
CmdSet(k, v, px) == [op |-> "Set", key |-> k, value |-> v, px |-> px]
CmdGet(k) == [op |-> "Get", key |-> k, value |-> <<>>, px |-> NoPx]
CmdKeys(p) == [op |-> "Keys", key |-> p, value |-> <<>>, px |-> NoPx]
CmdConfigGet(k) == [op |-> "ConfigGet", key |-> k, value |-> <<>>, px |-> NoPx]
(* Err(()) of from_buffer. *)
CmdErr == [op |-> "Err", key |-> <<>>, value |-> <<>>, px |-> NoPx]
(* from_buffer did not return: the parser panicked. *)
CmdPanic == [op |-> "Panic", key |-> <<>>, value |-> <<>>, px |-> NoPx]

(***************************************************************************)
(* The slice patterns of Command::from_buffer, tried in source order.      *)
(***************************************************************************)
(* A CONFIG GET test that asks for both keywords. *)
MutIsConfigGet(first, second) ==
    to_uppercase(second) = S_GET /\ to_uppercase(first) = S_CONFIG

(* s.to_uppercase() == "GET" || config.to_uppercase() == "CONFIG" *)
IsConfigGet(first, second) ==
    to_uppercase(second) = S_GET \/ to_uppercase(first) = S_CONFIG

AllBulk(arr) == \A i \in 1..Len(arr) : arr[i].type = "BulkString"

resolve_array(arr) ==
    LET n == Len(arr)
        up(i) == to_uppercase(arr[i].str)
    IN  IF ~AllBulk(arr) THEN CmdErr
        ELSE CASE n = 1 /\ arr[1].size = 4 ->
                    IF up(1) = S_PING THEN CmdPing ELSE CmdErr
               [] n = 2 /\ arr[1].size = 4 ->
                    IF up(1) = S_ECHO THEN CmdEcho(arr[2].str)
                    ELSE IF up(1) = S_KEYS THEN CmdKeys(arr[2].str)
                    ELSE CmdErr
               [] n = 2 /\ arr[1].size = 3 ->
                    IF up(1) = S_GET THEN CmdGet(arr[2].str) ELSE CmdErr
               [] n = 5 /\ arr[1].size = 3 /\ arr[4].size = 2 ->
                    IF up(1) = S_SET /\ up(4) = S_PX /\ ParseUnsigned(arr[5].str) >= 0
                    THEN CmdSet(arr[2].str, arr[3].str, ParseUnsigned(arr[5].str))
                    ELSE CmdErr
               [] n = 3 /\ arr[1].size = 3 ->
                    IF up(1) = S_SET THEN CmdSet(arr[2].str, arr[3].str, NoPx)
                    ELSE CmdErr
               [] n = 3 /\ arr[1].size = 6 /\ arr[2].size = 3 ->
                    IF IsConfigGet(arr[1].str, arr[2].str)
                    THEN CmdConfigGet(arr[3].str)
                    ELSE CmdErr
               [] OTHER -> CmdErr

resolve(p) ==
    CASE p.tag = "panic" -> CmdPanic
      [] p.tag = "err"   -> CmdErr
      [] OTHER -> IF p.obj.type = "Array" THEN resolve_array(p.obj.elems)
                  ELSE CmdErr

from_buffer(bytes) == resolve(parse(bytes))

(***************************************************************************)
(* Bounds of the model.                                                    *)
(***************************************************************************)
NumConns == 2
MaxTime == 1

Conns == 1..NumConns

(***************************************************************************)
(* The byte strings clients send as keys, values and PX durations.         *)
(***************************************************************************)
K_a == <<97>>
V_x == <<120>>
V_y == <<121>>
S_star == <<STAR>>
S_foo == <<102, 111, 111>>
S_foobar == <<102, 111, 111, 98, 97, 114>>
D_0 == <<48>>
D_1 == <<49>>

(***************************************************************************)
(* The buffers one stream.read can return, by name.                        *)
(***************************************************************************)
Buffers ==
    [ping       |-> serialize_to_array(<<S_PING>>),
     echo       |-> serialize_to_array(<<S_ECHO, V_x>>),
     set_x      |-> serialize_to_array(<<S_SET, K_a, V_x>>),
     set_y      |-> serialize_to_array(<<S_SET, K_a, V_y>>),
     set_x_px0  |-> serialize_to_array(<<S_SET, K_a, V_x, S_PX, D_0>>),
     set_x_px1  |-> serialize_to_array(<<S_SET, K_a, V_x, S_PX, D_1>>),
     get        |-> serialize_to_array(<<S_GET, K_a>>),
     keys_star  |-> serialize_to_array(<<S_KEYS, S_star>>),
     keys_a     |-> serialize_to_array(<<S_KEYS, K_a>>),
     cfg_dir    |-> serialize_to_array(<<S_CONFIG, S_GET, S_dir>>),
     cfg_dbf    |-> serialize_to_array(<<S_CONFIG, S_GET, S_dbfilename>>),
     cfg_foo    |-> serialize_to_array(<<S_CONFIG, S_GET, S_foo>>),
     (* a leading byte that is no RESP tag *)
     bad_tag    |-> <<88, 89, CR, LF>>,
     (* a non-numeric bulk length *)
     bad_len    |-> <<STAR, 49, CR, LF, DOLLAR, 120, CR, LF>> \o S_PING \o CRLF,
     (* a bulk string declaring 3 bytes and carrying 4 *)
     bad_size   |-> <<STAR, 49, CR, LF, DOLLAR, 51, CR, LF>> \o S_PING \o CRLF,
     (* well-formed arrays of bulk strings that name no command *)
     unk_1      |-> serialize_to_array(<<S_foo>>),
     unk_empty  |-> serialize_to_array(<<S_foo, <<>>>>),
     unk_cfg    |-> serialize_to_array(<<S_foobar, S_GET, S_dir>>),
     arity_ping |-> serialize_to_array(<<S_PING, K_a>>),
     arity_set  |-> serialize_to_array(<<S_SET, K_a, V_x, S_PX>>)]

AllRequests == DOMAIN Buffers

(* Inputs the decoder must reject: a bad tag, length token or size. *)
MalformedRequests == {"bad_tag", "bad_len", "bad_size"}

(* An unknown keyword, or an element count that fits no command. *)
UnresolvableRequests ==
    {"unk_1", "unk_empty", "unk_cfg", "arity_ping", "arity_set"}

(***************************************************************************)
(* Command::from_buffer on every buffer of the model, tabulated once (@@   *)
(* makes TLC evaluate the function at every point of its domain).          *)
(***************************************************************************)
Resolved == [r \in AllRequests |-> from_buffer(Buffers[r])] @@ <<>>

(* No buffer: before the first read and between requests. *)
NoBuf == "none"

(***************************************************************************)
(* The state.                                                              *)
(*   storage  State.storage: key -> (expiry, value); its DOMAIN is the set *)
(*            of keys present.  NoExpiry is Option::None.                  *)
(*   lock     the connection holding the storage mutex, NoConn when free   *)
(*   cfglock  the connection holding the config mutex, NoConn when free    *)
(*   config   State.config: dir and db_filename, each an Option<String>    *)
(*   now      the monotonic clock read by Instant::now(), in milliseconds  *)
(*   pc       where each connection's handle thread is                     *)
(*   buf      the name of the bytes of its last read (new_buf), dropped at *)
(*            the end of the loop iteration                                *)
(*   out      the bytes it is writing to the stream                        *)
(***************************************************************************)
VARIABLES storage, lock, cfglock, config, now, pc, buf, out

(***************************************************************************)
(* The inputs and results of the RESP codec, used by SpecCodec only.       *)
(***************************************************************************)
VARIABLES cin, cphase, cwire, cres, cres2, ccmd

codecVars == <<cin, cphase, cwire, cres, cres2, ccmd>>

(***************************************************************************)
(* Startup, used by SpecSnapshot only.                                     *)
(*   file   the snapshot file at dir + dbfilename                          *)
(*   boot   where main is: start, loaded, listening, or aborted by a panic *)
(*   rdb    the result of RDBObject::from_file                             *)
(***************************************************************************)
VARIABLES file, boot, rdb

snapVars == <<file, boot, rdb>>
vars == <<storage, lock, cfglock, config, now, pc, buf, out,
          cin, cphase, cwire, cres, cres2, ccmd, file, boot, rdb>>

NoExpiry == -1
NoConn == 0

(* No codec input: the server specification leaves the codec idle. *)
NoCase ==
    [kind |-> "off", strs |-> <<>>, more |-> <<>>, declared |-> 0, payload |-> <<>>]

(* No snapshot file: main was started without --dir or --dbfilename. *)
NoFile == [kind |-> "none", readable |-> FALSE, entries |-> <<>>, data |-> <<>>]

Unset == [some |-> FALSE, val |-> <<>>]
Some(s) == [some |-> TRUE, val |-> s]

(***************************************************************************)
(* Settings the process is started with (--dir, --dbfilename).  With one   *)
(* of the two missing main loads no snapshot and the store starts empty.   *)
(***************************************************************************)
ConfigChoices ==
    {[dir |-> Some(<<47>>), db_filename |-> Unset],
     [dir |-> Unset, db_filename |-> Some(<<100>>)]}

EmptyStore == <<>>

(* The command a connection is executing. *)
Cmd(w) == Resolved[buf[w]]

(***************************************************************************)
(* HashMap operations on storage.                                          *)
(***************************************************************************)
Has(st, k) == k \in DOMAIN st

(* A SET without PX that keeps the expiry of the entry it replaces. *)
MutStoreInsert(st, k, e) ==
    [x \in DOMAIN st \cup {k} |->
        IF x # k THEN st[x]
        ELSE IF k \in DOMAIN st /\ e.expiry = NoExpiry
             THEN [expiry |-> st[k].expiry, value |-> e.value]
             ELSE e]

(* An insert that forgets every other key. *)
MutStoreInsertAlone(st, k, e) == [x \in {k} |-> e]

StoreInsert(st, k, e) ==
    [x \in DOMAIN st \cup {k} |-> IF x = k THEN e ELSE st[x]]

(* An expired entry that is reported absent and left in the map. *)
MutStoreRemove(st, k) == st

StoreRemove(st, k) == [x \in DOMAIN st \ {k} |-> st[x]]

(* expiry.map(|t| Instant::now() + Duration::from_millis(t)) *)
SetExpiry(px, t) == IF px = NoPx THEN NoExpiry ELSE t + px

(* An entry that outlives its expiry instant by one tick. *)
MutExpired(t, expiry) == t > expiry

(* time::Instant::now() >= *expiry *)
Expired(t, expiry) == t >= expiry

(***************************************************************************)
(* state.storage.lock(): blocks until no other thread holds the mutex.     *)
(* No statement of a lock-holding arm can panic, so the mutex is never     *)
(* poisoned and the unwrap() of the lock result never fails.               *)
(***************************************************************************)
(* A lock() that never waits. *)
MutLockFree == TRUE

LockFree == lock = NoConn

(* A KEYS that finds no key. *)
MutOrders(S) == {<<>>}

(* Every order in which HashMap::keys() can yield the keys of a map. *)
RECURSIVE Orders(_)
Orders(S) ==
    IF S = {} THEN {<<>>}
    ELSE UNION {{<<x>> \o t : t \in Orders(S \ {x})} : x \in S}

(***************************************************************************)
(* Command::ConfigGet with a parameter that is dir or dbfilename: dir gets *)
(* [dir, value] or -Error when unset; dbfilename gets [dbfilename, value], *)
(* and nothing at all is written when it is unset (<<>> here).             *)
(***************************************************************************)
ConfigGetReply(key, conf) ==
    IF key = S_dir
    THEN IF conf.dir.some
         THEN serialize_to_array(<<S_dir, conf.dir.val>>)
         ELSE ErrorReply
    ELSE IF conf.db_filename.some
         THEN serialize_to_array(<<S_dbfilename, conf.db_filename.val>>)
         ELSE <<>>

(***************************************************************************)
(* Where handle goes after Command::from_buffer returned c, and what it    *)
(* writes when the arm takes no lock.  A panic in the parser unwinds the   *)
(* thread, which drops the stream: the connection ends without a reply.    *)
(***************************************************************************)
Dispatch(c) ==
    CASE c.op = "Ping"      -> "write"
      [] c.op = "Echo"      -> "write"
      [] c.op = "Err"       -> "write"
      [] c.op = "Set"       -> "set_lock"
      [] c.op = "Get"       -> "get_lock"
      [] c.op = "Keys"      -> "keys_lock"
      [] c.op = "ConfigGet" ->
            IF c.key \in {S_dir, S_dbfilename} THEN "config_lock" ELSE "write"
      [] OTHER              -> "panicked"

UnlockedReply(c) ==
    CASE c.op = "Ping" -> PONG
      [] c.op = "Echo" -> serialize_to_bulk_string(c.key)
      [] c.op \in {"Err", "ConfigGet"} -> ErrorReply
      [] OTHER -> <<>>

----------------------------------------------------------------------------
(***************************************************************************)
(* The snapshot decoder.  Bytes are numbers 0..255; data[i] of the code    *)
(* (0-based) is data[i + 1] here.  Every index or slice past the end of    *)
(* the file, every unimplemented!() and every expect() on invalid UTF-8    *)
(* is a panic.                                                             *)
(***************************************************************************)
OP_META == 250
OP_RESIZEDB == 251
OP_EXPIRE_MS == 252
OP_EXPIRE_S == 253

(* The magic signature "REDIS". *)
Magic == <<82, 69, 68, 73, 83>>

(***************************************************************************)
(* A big-endian unsigned number: u64::from_be_bytes, u32::from_be_bytes    *)
(* and the shifts of decode_object and decode_length.  The types of the    *)
(* code hold every value of their bytes; here a value of 2^20 or more is   *)
(* represented by 2^20, which is longer than any file and further back     *)
(* than any instant of the model.                                          *)
(***************************************************************************)
RECURSIVE from_be_bytes(_, _)
from_be_bytes(bytes, acc) ==
    IF acc >= 1048576 THEN 1048576
    ELSE IF bytes = <<>> THEN acc
    ELSE from_be_bytes(Tail(bytes), acc * 256 + Head(bytes))

IsCont(b) == b >= 128 /\ b <= 191

(* String::from_utf8(..).is_ok() *)
RECURSIVE Utf8Ok(_)
Utf8Ok(s) ==
    IF s = <<>> THEN TRUE
    ELSE LET b == s[1]
             n == Len(s)
         IN  IF b < 128 THEN Utf8Ok(Tail(s))
             ELSE IF b >= 194 /\ b <= 223
             THEN n >= 2 /\ IsCont(s[2]) /\ Utf8Ok(SliceFrom(s, 2))
             ELSE IF b >= 224 /\ b <= 239
             THEN /\ n >= 3 /\ IsCont(s[2]) /\ IsCont(s[3])
                  /\ (b = 224 => s[2] >= 160)
                  /\ (b = 237 => s[2] <= 159)
                  /\ Utf8Ok(SliceFrom(s, 3))
             ELSE IF b >= 240 /\ b <= 244
             THEN /\ n >= 4 /\ IsCont(s[2]) /\ IsCont(s[3]) /\ IsCont(s[4])
                  /\ (b = 240 => s[2] >= 144)
                  /\ (b = 244 => s[2] <= 143)
                  /\ Utf8Ok(SliceFrom(s, 4))
             ELSE FALSE

(***************************************************************************)
(* decode_object: a length-prefixed string or an integer.                  *)
(* Result: tag "str" (RDBFileObject::Str), "int" (RDBFileObject::Integer)  *)
(* or "panic"; consumed is the number of bytes taken.                      *)
(***************************************************************************)
ObjStr(s, c) == [tag |-> "str", str |-> s, int |-> 0, consumed |-> c]
ObjInt(v, c) == [tag |-> "int", str |-> <<>>, int |-> v, consumed |-> c]
ObjPanic == [tag |-> "panic", str |-> <<>>, int |-> 0, consumed |-> 0]

(* (first_byte & 63) + (second_byte << 6), computed in u8. *)
TwoByteSize(first_byte, second_byte) == (first_byte % 64) + ((second_byte * 64) % 256)

decode_object(data) ==
    IF Len(data) < 1 THEN ObjPanic
    ELSE LET first_byte == data[1]
             top == first_byte \div 64
             remaining == first_byte % 64
         IN  CASE top = 0 ->
                    IF remaining + 1 > Len(data) THEN ObjPanic
                    ELSE ObjStr(Slice(data, 1, remaining + 1), remaining + 1)
               [] top = 1 ->
                    IF Len(data) < 2 THEN ObjPanic
                    ELSE IF TwoByteSize(first_byte, data[2]) + 2 > Len(data) THEN ObjPanic
                    ELSE ObjStr(Slice(data, 2, TwoByteSize(first_byte, data[2]) + 2),
                                TwoByteSize(first_byte, data[2]) + 2)
               [] top = 2 -> ObjPanic
               [] OTHER ->
                    CASE remaining = 0 ->
                            IF Len(data) < 2 THEN ObjPanic ELSE ObjInt(data[2], 2)
                      [] remaining = 1 ->
                            IF Len(data) < 3 THEN ObjPanic
                            ELSE ObjInt(from_be_bytes(Slice(data, 1, 3), 0), 3)
                      [] remaining = 2 ->
                            IF Len(data) < 5 THEN ObjPanic
                            ELSE ObjInt(from_be_bytes(Slice(data, 1, 5), 0), 5)
                      [] OTHER -> ObjPanic

(***************************************************************************)
(* decode_length: the same prefix read as a number.  It never returns Err. *)
(***************************************************************************)
LenOk(n, c) == [tag |-> "ok", size |-> n, consumed |-> c]
LenPanic == [tag |-> "panic", size |-> 0, consumed |-> 0]

decode_length(data) ==
    IF Len(data) < 1 THEN LenPanic
    ELSE LET first_byte == data[1]
             top == first_byte \div 64
             remaining == first_byte % 64
         IN  CASE top = 0 -> LenOk(remaining, 1)
               [] top = 1 ->
                    IF Len(data) < 2 THEN LenPanic
                    ELSE LenOk(TwoByteSize(first_byte, data[2]), 2)
               [] top = 2 -> LenPanic
               [] OTHER ->
                    CASE remaining = 0 ->
                            IF Len(data) < 2 THEN LenPanic ELSE LenOk(data[2], 2)
                      [] remaining = 1 ->
                            IF Len(data) < 3 THEN LenPanic
                            ELSE LenOk(from_be_bytes(Slice(data, 1, 3), 0), 3)
                      [] remaining = 2 ->
                            IF Len(data) < 5 THEN LenPanic
                            ELSE LenOk(from_be_bytes(Slice(data, 1, 5), 0), 5)
                      [] OTHER -> LenPanic

(***************************************************************************)
(* Results of RDBObject::from_file: Ok with the store and the metadata,    *)
(* Err(()), or a panic.  pos is the local i when the function returns Ok.  *)
(***************************************************************************)
LoadOk(store, metadata, i) ==
    [tag |-> "ok", storage |-> store, metadata |-> metadata, pos |-> i]
LoadErr == [tag |-> "err", storage |-> <<>>, metadata |-> <<>>, pos |-> 0]
LoadPanic == [tag |-> "panic", storage |-> <<>>, metadata |-> <<>>, pos |-> 0]

(***************************************************************************)
(* Instant::now() - Duration: an instant in the past.  Instants before the *)
(* origin of the model's clock are represented by the origin: every later  *)
(* reading of the clock compares with them in the same way.                *)
(***************************************************************************)
(* The timestamp taken as a time to live from the moment of loading. *)
MutInstantPlus(t, millis) == t + millis

InstantMinus(t, millis) == IF t - millis < 0 THEN 0 ELSE t - millis

(* A header check that lets every file through. *)
MutHeaderOk(data) == TRUE

(* The header check: at least 5 bytes, starting with the magic. *)
HeaderOk(data) == Len(data) >= 5 /\ Slice(data, 0, 5) = Magic

RECURSIVE keyspace_loop(_, _, _, _, _, _)

(* The end of one entry: the optional expiry, then store.insert. *)
entry_expiry(data, i, remaining, store, metadata, t, key, value) ==
    IF i >= Len(data) THEN LoadPanic
    ELSE IF data[i + 1] = OP_EXPIRE_MS
    THEN IF i + 9 > Len(data) THEN LoadPanic
         ELSE keyspace_loop(data, i + 9, remaining - 1,
                  StoreInsert(store, key,
                      [expiry |-> InstantMinus(t, from_be_bytes(Slice(data, i + 1, i + 9), 0)),
                       value |-> value]),
                  metadata, t)
    ELSE IF data[i + 1] = OP_EXPIRE_S
    THEN IF i + 4 > Len(data) THEN LoadPanic
         ELSE keyspace_loop(data, i + 4, remaining - 1,
                  StoreInsert(store, key,
                      [expiry |-> InstantMinus(t, 1000 * from_be_bytes(Slice(data, i, i + 4), 0)),
                       value |-> value]),
                  metadata, t)
    ELSE keyspace_loop(data, i, remaining - 1,
             StoreInsert(store, key, [expiry |-> NoExpiry, value |-> value]),
             metadata, t)

(* The value of an entry: a length, then that many bytes. *)
entry_value_at(data, i, remaining, store, metadata, t, key, l) ==
    IF l.tag # "ok" THEN LoadPanic
    ELSE IF i + l.consumed + l.size > Len(data) THEN LoadPanic
    ELSE entry_expiry(data, i + l.consumed + l.size, remaining, store, metadata, t, key,
                      Slice(data, i + l.consumed, i + l.consumed + l.size))

entry_value(data, i, remaining, store, metadata, t, key) ==
    entry_value_at(data, i, remaining, store, metadata, t, key,
                   decode_length(SliceFrom(data, i)))

(* The key of an entry: a length, then that many bytes of UTF-8. *)
entry_key_at(data, i, remaining, store, metadata, t, l) ==
    IF l.tag # "ok" THEN LoadPanic
    ELSE IF i + l.consumed + l.size > Len(data) THEN LoadPanic
    ELSE IF ~Utf8Ok(Slice(data, i + l.consumed, i + l.consumed + l.size)) THEN LoadPanic
    ELSE entry_value(data, i + l.consumed + l.size, remaining, store, metadata, t,
                     Slice(data, i + l.consumed, i + l.consumed + l.size))

entry_key(data, i, remaining, store, metadata, t) ==
    entry_key_at(data, i, remaining, store, metadata, t,
                 decode_length(SliceFrom(data, i)))

(***************************************************************************)
(* for _ in 0..hash_table_size: the type flag, then the entry; any flag    *)
(* other than 0 is unimplemented!().                                       *)
(***************************************************************************)
keyspace_loop(data, i, remaining, store, metadata, t) ==
    IF remaining = 0 THEN LoadOk(store, metadata, i)
    ELSE IF i >= Len(data) THEN LoadPanic
    ELSE IF data[i + 1] # 0 THEN LoadPanic
    ELSE entry_key(data, i + 1, remaining, store, metadata, t)

(* expire_table_size: decoded and not used. *)
expire_table_at(data, i, hash_table_size, metadata, t, l) ==
    IF l.tag # "ok" THEN LoadPanic
    ELSE keyspace_loop(data, i + l.consumed, hash_table_size, <<>>, metadata, t)

hash_table_at(data, i, metadata, t, l) ==
    IF l.tag # "ok" THEN LoadPanic
    ELSE expire_table_at(data, i + l.consumed, l.size, metadata, t,
                         decode_length(SliceFrom(data, i + l.consumed)))

(***************************************************************************)
(* After the metadata: one byte is skipped, db_index is read, the next     *)
(* byte must be 0xFB, then the two table sizes.                            *)
(***************************************************************************)
keyspace_header(data, i, metadata, t) ==
    IF i + 2 >= Len(data) THEN LoadPanic
    ELSE IF data[i + 3] # OP_RESIZEDB THEN LoadErr
    ELSE hash_table_at(data, i + 3, metadata, t, decode_length(SliceFrom(data, i + 3)))

RECURSIVE metadata_loop(_, _, _, _)

(* The value of a metadata pair, then 0xFA for another pair or the end. *)
metadata_value_at(data, i, metadata, t, key, v) ==
    IF v.tag = "panic" THEN LoadPanic
    ELSE IF v.tag = "str" /\ ~Utf8Ok(v.str) THEN LoadPanic
    ELSE IF i + v.consumed >= Len(data) THEN LoadPanic
    ELSE IF data[i + v.consumed + 1] = OP_META
    THEN metadata_loop(data, i + v.consumed + 1,
             StoreInsert(metadata, key, IF v.tag = "str" THEN v.str ELSE FormatNat(v.int)), t)
    ELSE keyspace_header(data, i + v.consumed,
             StoreInsert(metadata, key, IF v.tag = "str" THEN v.str ELSE FormatNat(v.int)), t)

(* The key of a metadata pair: an integer is Err, invalid UTF-8 panics. *)
metadata_key_at(data, i, metadata, t, k) ==
    IF k.tag = "panic" THEN LoadPanic
    ELSE IF k.tag = "int" THEN LoadErr
    ELSE IF ~Utf8Ok(k.str) THEN LoadPanic
    ELSE metadata_value_at(data, i + k.consumed, metadata, t, k.str,
                           decode_object(SliceFrom(data, i + k.consumed)))

metadata_loop(data, i, metadata, t) ==
    metadata_key_at(data, i, metadata, t, decode_object(SliceFrom(data, i)))

(***************************************************************************)
(* RDBObject::from_file on a file that could be read: the header, the      *)
(* 4 version bytes (skipped), 0xFA, the metadata, the keyspace.            *)
(***************************************************************************)
from_bytes(data, t) ==
    IF ~HeaderOk(data) THEN LoadErr
    ELSE IF Len(data) <= 9 THEN LoadPanic
    ELSE IF data[10] # OP_META THEN LoadErr
    ELSE metadata_loop(data, 10, <<>>, t)

(* fs::read failing is Err. *)
from_file(f, t) == IF ~f.readable THEN LoadErr ELSE from_bytes(f.data, t)

Init ==
    /\ storage = EmptyStore
    /\ lock = NoConn
    /\ cfglock = NoConn
    /\ config \in ConfigChoices
    /\ now = 0
    /\ pc = [w \in Conns |-> "read"]
    /\ buf = [w \in Conns |-> NoBuf]
    /\ out = [w \in Conns |-> <<>>]
    /\ cin = NoCase
    /\ cphase = "off"
    /\ cwire = <<>>
    /\ cres = ParseErr
    /\ cres2 = ParseErr
    /\ ccmd = CmdErr
    /\ file = NoFile
    /\ boot = "listening"
    /\ rdb = LoadErr

(***************************************************************************)
(* stream.read returned the bytes named r: they are copied to new_buf,     *)
(* decoded and resolved; Ping, Echo, an unknown CONFIG GET parameter and   *)
(* Err go on to write their reply.                                         *)
(***************************************************************************)
Read(w) ==
    /\ pc[w] = "read"
    /\ \E r \in AllRequests :
          /\ buf' = [buf EXCEPT ![w] = r]
          /\ pc' = [pc EXCEPT ![w] = Dispatch(Resolved[r])]
          /\ out' = [out EXCEPT ![w] =
                        IF Dispatch(Resolved[r]) = "write"
                        THEN UnlockedReply(Resolved[r]) ELSE <<>>]
    /\ UNCHANGED <<storage, lock, cfglock, config, now, codecVars, snapVars>>

(* stream.read returned 0: the client closed; handle returns. *)
Close(w) ==
    /\ pc[w] = "read"
    /\ pc' = [pc EXCEPT ![w] = "closed"]
    /\ UNCHANGED <<storage, lock, cfglock, config, now, buf, out, codecVars, snapVars>>

(* stream.read returned an error: expect() panics. *)
ReadFail(w) ==
    /\ pc[w] = "read"
    /\ pc' = [pc EXCEPT ![w] = "panicked"]
    /\ UNCHANGED <<storage, lock, cfglock, config, now, buf, out, codecVars, snapVars>>

(* A return to stream.read with the request and its reply still pending. *)
MutEndRequest(w) ==
    /\ pc' = [pc EXCEPT ![w] = "read"]
    /\ UNCHANGED <<buf, out>>

(* The end of a loop iteration: the reply is written, new_buf is dropped. *)
EndRequest(w) ==
    /\ pc' = [pc EXCEPT ![w] = "read"]
    /\ buf' = [buf EXCEPT ![w] = NoBuf]
    /\ out' = [out EXCEPT ![w] = <<>>]

(* write_all of a reply in an arm that holds no lock. *)
Write(w) ==
    /\ pc[w] = "write"
    /\ EndRequest(w)
    /\ UNCHANGED <<storage, lock, cfglock, config, now, codecVars, snapVars>>

(***************************************************************************)
(* Command::Set: take the lock, compute the expiry, insert.  The guard     *)
(* lives to the end of the match arm, so the write of +OK happens with     *)
(* the lock held and the lock is released after it.                        *)
(***************************************************************************)
SetLock(w) ==
    /\ pc[w] = "set_lock"
    /\ LockFree
    /\ lock' = w
    /\ storage' = StoreInsert(storage, Cmd(w).key,
                              [expiry |-> SetExpiry(Cmd(w).px, now),
                               value |-> Cmd(w).value])
    /\ out' = [out EXCEPT ![w] = serialize_to_simple_string(S_OK)]
    /\ pc' = [pc EXCEPT ![w] = "set_write"]
    /\ UNCHANGED <<cfglock, config, now, buf, codecVars, snapVars>>

(* A checked write of +OK that fails: the worker unwinds inside the arm. *)
MutSetWriteUnwrap(w) ==
    /\ pc[w] = "set_write"
    /\ pc' = [pc EXCEPT ![w] = "panicked"]
    /\ UNCHANGED <<storage, lock, cfglock, config, now, buf, out, codecVars, snapVars>>

SetWrite(w) ==
    /\ pc[w] = "set_write"
    /\ lock' = NoConn
    /\ EndRequest(w)
    /\ UNCHANGED <<storage, cfglock, config, now, codecVars, snapVars>>

(***************************************************************************)
(* Command::Get: take the lock and look the key up.  An entry whose expiry *)
(* has passed gets $-1 written and is then removed; the other arms write   *)
(* their reply.  All of it happens with the lock held.                     *)
(***************************************************************************)
GetLock(w) ==
    /\ pc[w] = "get_lock"
    /\ LockFree
    /\ lock' = w
    /\ LET k == Cmd(w).key
       IN  IF Has(storage, k)
           THEN IF storage[k].expiry # NoExpiry /\ Expired(now, storage[k].expiry)
                THEN /\ out' = [out EXCEPT ![w] = NullBulk]
                     /\ pc' = [pc EXCEPT ![w] = "get_write_expired"]
                ELSE /\ out' = [out EXCEPT ![w] =
                                    serialize_to_bulk_string(storage[k].value)]
                     /\ pc' = [pc EXCEPT ![w] = "get_write"]
           ELSE /\ out' = [out EXCEPT ![w] = NullBulk]
                /\ pc' = [pc EXCEPT ![w] = "get_write"]
    /\ UNCHANGED <<storage, cfglock, config, now, buf, codecVars, snapVars>>

GetWrite(w) ==
    /\ pc[w] = "get_write"
    /\ lock' = NoConn
    /\ EndRequest(w)
    /\ UNCHANGED <<storage, cfglock, config, now, codecVars, snapVars>>

(* The expired arm: write_all($-1), then storage.remove(&key). *)
GetWriteExpired(w) ==
    /\ pc[w] = "get_write_expired"
    /\ storage' = StoreRemove(storage, Cmd(w).key)
    /\ lock' = NoConn
    /\ EndRequest(w)
    /\ UNCHANGED <<cfglock, config, now, codecVars, snapVars>>

(***************************************************************************)
(* Command::Keys: take the lock, collect every key when the pattern is     *)
(* "*" and nothing otherwise, write the array with the lock held.          *)
(***************************************************************************)
KeysLock(w) ==
    /\ pc[w] = "keys_lock"
    /\ LockFree
    /\ lock' = w
    /\ \E keys \in (IF Cmd(w).key = S_star THEN Orders(DOMAIN storage) ELSE {<<>>}) :
          out' = [out EXCEPT ![w] = serialize_to_array(keys)]
    /\ pc' = [pc EXCEPT ![w] = "keys_write"]
    /\ UNCHANGED <<storage, cfglock, config, now, buf, codecVars, snapVars>>

KeysWrite(w) ==
    /\ pc[w] = "keys_write"
    /\ lock' = NoConn
    /\ EndRequest(w)
    /\ UNCHANGED <<storage, cfglock, config, now, codecVars, snapVars>>

(***************************************************************************)
(* Command::ConfigGet for dir or dbfilename: take the config lock, write   *)
(* the reply with it held.  With dbfilename unset the arm is empty: the    *)
(* guard is dropped and no reply is written.                               *)
(***************************************************************************)
ConfigLock(w) ==
    /\ pc[w] = "config_lock"
    /\ cfglock = NoConn
    /\ LET reply == ConfigGetReply(Cmd(w).key, config)
       IN  IF reply = <<>>
           THEN /\ EndRequest(w)
                /\ UNCHANGED cfglock
           ELSE /\ cfglock' = w
                /\ out' = [out EXCEPT ![w] = reply]
                /\ pc' = [pc EXCEPT ![w] = "config_write"]
                /\ UNCHANGED buf
    /\ UNCHANGED <<storage, lock, config, now, codecVars, snapVars>>

ConfigWrite(w) ==
    /\ pc[w] = "config_write"
    /\ cfglock' = NoConn
    /\ EndRequest(w)
    /\ UNCHANGED <<storage, lock, config, now, codecVars, snapVars>>

(* Time passes. *)
Tick ==
    /\ now < MaxTime
    /\ now' = now + 1
    /\ UNCHANGED <<storage, lock, cfglock, config, pc, buf, out, codecVars, snapVars>>

Next ==
    \/ \E w \in Conns : Read(w)
    \/ \E w \in Conns : Close(w)
    \/ \E w \in Conns : ReadFail(w)
    \/ \E w \in Conns : Write(w)
    \/ \E w \in Conns : SetLock(w)
    \/ \E w \in Conns : SetWrite(w)
    \/ \E w \in Conns : GetLock(w)
    \/ \E w \in Conns : GetWrite(w)
    \/ \E w \in Conns : GetWriteExpired(w)
    \/ \E w \in Conns : KeysLock(w)
    \/ \E w \in Conns : KeysWrite(w)
    \/ \E w \in Conns : ConfigLock(w)
    \/ \E w \in Conns : ConfigWrite(w)
    \/ Tick

Spec == Init /\ [][Next]_vars

(***************************************************************************)
(* Scheduling.  Every thread that can take the storage lock gets it when   *)
(* the lock is free again and again (strong fairness on the lock steps).   *)
(* write_all returns once the socket accepts the bytes: it does for a      *)
(* client that reads its replies (weak fairness on the write steps of the  *)
(* connections in Readers), and may wait forever for one that never reads. *)
(***************************************************************************)
Readers == {1}

Fairness ==
    /\ \A w \in Conns :
          /\ SF_vars(SetLock(w))
          /\ SF_vars(GetLock(w))
          /\ SF_vars(KeysLock(w))
    /\ \A w \in Readers :
          /\ WF_vars(SetWrite(w))
          /\ WF_vars(GetWrite(w))
          /\ WF_vars(GetWriteExpired(w))
          /\ WF_vars(KeysWrite(w))

SpecLive == Init /\ [][Next]_vars /\ Fairness

(***************************************************************************)
(* The RESP codec on its own: a value is encoded, the bytes are decoded    *)
(* by parse_object, and the decoder is run again on what is left after the *)
(* consumed count it reported.                                             *)
(*   cin     the input: a value to encode ("simple", "bulk", "array"), two *)
(*           commands sent in one buffer ("pipeline"), or a bulk-string    *)
(*           frame with a declared length and a payload ("frame")          *)
(*   cphase  input, encoded, decoded, rest                                 *)
(*   cwire   the bytes on the wire                                         *)
(*   cres    parse_object(cwire)                                           *)
(*   cres2   parse_object(&cwire[cres.consumed..])                         *)
(*   ccmd    Command::from_buffer(cwire), for the inputs that are commands *)
(***************************************************************************)
MaxPayload == 3
MaxDeclared == 2
MaxElems == 2

(* Strings the server encodes: a key, a value, a setting, an empty one. *)
ValueStrs == {<<>>, K_a, S_OK, S_PING}

(* Simple strings the server encodes: OK, and the body of +PONG. *)
SimpleStrs == {S_OK, <<80, 79, 78, 71>>}

(* Payload bytes of a frame: a letter and the two bytes of the terminator. *)
PayloadBytes == {97, CR, LF}

Payloads == UNION {[1..n -> PayloadBytes] : n \in 0..MaxPayload}

StrSeqs == UNION {[1..n -> ValueStrs] : n \in 0..MaxElems}

(* Commands as a client sends them: arrays of bulk strings. *)
CmdFrames == {<<S_PING>>, <<S_GET, K_a>>, <<S_SET, K_a, V_x>>}

(* The commands in their upper-case spelling. *)
CmdTemplates ==
    {<<S_PING>>, <<S_ECHO, V_x>>, <<S_KEYS, S_star>>, <<S_GET, K_a>>,
     <<S_SET, K_a, V_x>>, <<S_SET, K_a, V_x, S_PX, D_1>>}

(* Which letters of a keyword are written in lower case. *)
CaseMasks == [1..4 -> BOOLEAN]

Spell(s, m) ==
    [i \in 1..Len(s) |-> IF m[i] /\ s[i] >= 65 /\ s[i] <= 90 THEN s[i] + 32 ELSE s[i]]

(* The command c with its keyword spelled by m1 and its PX option by m2. *)
Respell(c, m1, m2) ==
    [i \in 1..Len(c) |-> IF i = 1 THEN Spell(c[i], m1)
                          ELSE IF i = 4 THEN Spell(c[i], m2)
                          ELSE c[i]]

(* First and second elements of 3-element arrays. *)
FirstTokens ==
    {S_CONFIG, Spell(S_CONFIG, [i \in 1..6 |-> TRUE]), S_foobar, S_foo, S_SET,
     S_CONFIG \o V_x, V_x}

SecondTokens ==
    {S_GET, Spell(S_GET, [i \in 1..3 |-> TRUE]), S_foo, S_PX, S_GET \o V_x}

CodecCase(kind, strs, more, declared, payload) ==
    [kind |-> kind, strs |-> strs, more |-> more,
     declared |-> declared, payload |-> payload]

CodecCases ==
    {CodecCase("simple", <<s>>, <<>>, 0, <<>>) : s \in SimpleStrs}
    \cup {CodecCase("bulk", <<s>>, <<>>, 0, <<>>) : s \in ValueStrs}
    \cup {CodecCase("array", ss, <<>>, 0, <<>>) : ss \in StrSeqs}
    \cup {CodecCase("pipeline", c1, c2, 0, <<>>) : c1 \in CmdFrames, c2 \in CmdFrames}
    \cup {CodecCase("frame", <<>>, <<>>, d, p) : d \in 0..MaxDeclared, p \in Payloads}
    \cup {CodecCase("command", Respell(c, m1, m2), c, 0, <<>>) :
             c \in CmdTemplates, m1 \in CaseMasks, m2 \in CaseMasks}
    \cup {CodecCase("config3", <<t1, t2, t3>>, <<>>, 0, <<>>) :
             t1 \in FirstTokens, t2 \in SecondTokens, t3 \in {S_dir, S_foo}}

ValueKinds == {"simple", "bulk", "array"}

(* The RedisObject::Array of bulk strings that serialize_to_array encodes. *)
ArrayOf(strs) == Array([i \in 1..Len(strs) |-> BulkString(Len(strs[i]), strs[i])])

(* The RedisObject a value case stands for. *)
ValueOf(c) ==
    CASE c.kind = "simple" -> SimpleString(c.strs[1])
      [] c.kind = "bulk"   -> BulkString(Len(c.strs[1]), c.strs[1])
      [] OTHER             -> ArrayOf(c.strs)

(* "$<declared>\r\n<payload>\r\n" *)
BulkFrame(declared, payload) ==
    <<DOLLAR>> \o FormatNat(declared) \o CRLF \o payload \o CRLF

WireOf(c) ==
    CASE c.kind = "simple"   -> serialize_to_simple_string(c.strs[1])
      [] c.kind = "bulk"     -> serialize_to_bulk_string(c.strs[1])
      [] c.kind = "array"    -> serialize_to_array(c.strs)
      [] c.kind = "pipeline" -> serialize_to_array(c.strs) \o serialize_to_array(c.more)
      [] c.kind = "command"  -> serialize_to_array(c.strs)
      [] c.kind = "config3"  -> serialize_to_array(c.strs)
      [] OTHER               -> BulkFrame(c.declared, c.payload)

InitCodec ==
    /\ storage = EmptyStore
    /\ lock = NoConn
    /\ cfglock = NoConn
    /\ config = [dir |-> Unset, db_filename |-> Unset]
    /\ now = 0
    /\ pc = [w \in Conns |-> "read"]
    /\ buf = [w \in Conns |-> NoBuf]
    /\ out = [w \in Conns |-> <<>>]
    /\ cin \in CodecCases
    /\ cphase = "input"
    /\ cwire = <<>>
    /\ cres = ParseErr
    /\ cres2 = ParseErr
    /\ ccmd = CmdErr
    /\ file = NoFile
    /\ boot = "listening"
    /\ rdb = LoadErr

(* serialize_to_*: the bytes of the input are put on the wire. *)
Encode ==
    /\ cphase = "input"
    /\ cwire' = WireOf(cin)
    /\ cphase' = "encoded"
    /\ UNCHANGED <<storage, lock, cfglock, config, now, pc, buf, out, cin, cres, cres2, ccmd,
                   snapVars>>

(* RESPParser::parse_object on the whole buffer. *)
Decode ==
    /\ cphase = "encoded"
    /\ cres' = parse_object(cwire)
    /\ cphase' = "decoded"
    /\ UNCHANGED <<storage, lock, cfglock, config, now, pc, buf, out, cin, cwire, cres2, ccmd,
                   snapVars>>

(***************************************************************************)
(* parse_object on the buffer with the reported consumed count sliced      *)
(* away; slicing past the end of the buffer panics.                        *)
(***************************************************************************)
DecodeRest ==
    /\ cphase = "decoded"
    /\ cres.tag = "some"
    /\ cres2' = IF cres.consumed > Len(cwire) THEN ParsePanic
                ELSE parse_object(SliceFrom(cwire, cres.consumed))
    /\ cphase' = "rest"
    /\ UNCHANGED <<storage, lock, cfglock, config, now, pc, buf, out, cin, cwire, cres, ccmd,
                   snapVars>>

(* Command::from_buffer on the whole buffer. *)
Resolve ==
    /\ cphase = "encoded"
    /\ cin.kind \in {"command", "config3"}
    /\ ccmd' = from_buffer(cwire)
    /\ cphase' = "resolved"
    /\ UNCHANGED <<storage, lock, cfglock, config, now, pc, buf, out, cin, cwire, cres,
                   cres2, snapVars>>

NextCodec ==
    \/ Encode
    \/ Decode
    \/ DecodeRest
    \/ Resolve

SpecCodec == InitCodec /\ [][NextCodec]_vars

(***************************************************************************)
(* Startup with a snapshot: main is started with --dir and --dbfilename,   *)
(* reads the file, builds the store from it and serves one client.         *)
(* TcpListener::bind is taken to succeed.                                  *)
(***************************************************************************)
MaxEntries == 2

K_b == <<98>>

(* The 4 version bytes "0011", which from_file skips. *)
Version == <<48, 48, 49, 49>>

(* An entry of a snapshot: kind is "none", "ms" (0xFC) or "s" (0xFD). *)
SnapEntry(key, value, kind, stamp) ==
    [key |-> key, value |-> value, kind |-> kind, stamp |-> stamp]

SnapEntries ==
    {SnapEntry(k, V_x, "none", 0) : k \in {K_a, K_b}}
    \cup {SnapEntry(k, V_y, "ms", 1) : k \in {K_a, K_b}}
    \cup {SnapEntry(k, V_y, "s", n) : k \in {K_a, K_b}, n \in {0, 1}}

(* The bytes of a timestamp below 256 in w big-endian bytes. *)
StampBytes(w, n) == [i \in 1..w |-> IF i = w THEN n ELSE 0]

(* Type flag 0, the key and the value with their lengths, the expiry. *)
EntryBytes(e) ==
    <<0, Len(e.key)>> \o e.key \o <<Len(e.value)>> \o e.value
        \o (CASE e.kind = "ms" -> <<OP_EXPIRE_MS>> \o StampBytes(8, e.stamp)
              [] e.kind = "s"  -> <<OP_EXPIRE_S>> \o StampBytes(4, e.stamp)
              [] OTHER         -> <<>>)

(* Magic, version, two metadata pairs (a string and an 8-bit integer). *)
SnapPrefix ==
    Magic \o Version \o <<OP_META, 1, 118, 1, 55>> \o <<OP_META, 1, 98, 192, 64>>

(* 0xFE, the database index, 0xFB and the two table sizes. *)
SnapTables(entries) ==
    <<254, 0, OP_RESIZEDB, Len(entries),
      Cardinality({i \in 1..Len(entries) : entries[i].kind # "none"})>>

(* A well-formed snapshot holding the entries, ended by 0xFF. *)
WellFormedBytes(entries) ==
    SnapPrefix \o SnapTables(entries)
        \o FlattenSeq([i \in 1..Len(entries) |-> EntryBytes(entries[i])])
        \o <<255>>

ReplaceAt(s, i, b) == [j \in 1..Len(s) |-> IF j = i THEN b ELSE s[j]]

SnapFile(kind, entries, data) ==
    [kind |-> kind, readable |-> TRUE, entries |-> entries, data |-> data]

EntrySeqs == UNION {[1..n -> SnapEntries] : n \in 0..MaxEntries}

(* The snapshot the damaged files are made from: one entry, no expiry. *)
RefEntries == <<SnapEntry(K_a, V_x, "none", 0)>>
RefBytes == WellFormedBytes(RefEntries)

(* The 0-based position of 0xFB in RefBytes. *)
RefTablePos == Len(SnapPrefix) + 2

Files ==
    {[kind |-> "unreadable", readable |-> FALSE, entries |-> <<>>, data |-> <<>>]}
    \cup {SnapFile("wellformed", es, WellFormedBytes(es)) : es \in EntrySeqs}
    \cup {SnapFile("short", RefEntries, Slice(RefBytes, 0, n)) : n \in 0..4}
    \cup {SnapFile("badmagic", RefEntries, ReplaceAt(RefBytes, n, 88)) : n \in 1..5}
    \cup {SnapFile("no_fa", RefEntries, ReplaceAt(RefBytes, 10, 0))}
    \cup {SnapFile("no_fb", RefEntries, ReplaceAt(RefBytes, RefTablePos + 1, 0))}
    \cup {SnapFile("truncated", RefEntries, Slice(RefBytes, 0, n)) :
             n \in 5..(Len(RefBytes) - 1)}
    (* a length with top bits 10, integer sub-encoding 3, type flag 1 *)
    \cup {SnapFile("unimplemented", RefEntries, ReplaceAt(RefBytes, RefTablePos + 5, 128)),
          SnapFile("unimplemented", RefEntries, ReplaceAt(RefBytes, 18, 195)),
          SnapFile("unimplemented", RefEntries, ReplaceAt(RefBytes, RefTablePos + 4, 1))}

(* The one client of SpecSnapshot. *)
SnapConns == {1}

(* data_storage: the loaded store, or an empty map without one. *)
InitialStore(r) == IF r.tag = "ok" THEN r.storage ELSE EmptyStore

InitSnapshot ==
    /\ storage = EmptyStore
    /\ lock = NoConn
    /\ cfglock = NoConn
    /\ config = [dir |-> Some(<<47>>), db_filename |-> Some(<<100>>)]
    /\ now = 0
    /\ pc = [w \in Conns |-> "read"]
    /\ buf = [w \in Conns |-> NoBuf]
    /\ out = [w \in Conns |-> <<>>]
    /\ cin = NoCase
    /\ cphase = "off"
    /\ cwire = <<>>
    /\ cres = ParseErr
    /\ cres2 = ParseErr
    /\ ccmd = CmdErr
    /\ file \in Files
    /\ boot = "start"
    /\ rdb = LoadErr

(* RDBObject::from_file; a panic in it ends the process. *)
Load ==
    /\ boot = "start"
    /\ rdb' = from_file(file, now)
    /\ boot' = IF from_file(file, now).tag = "panic" THEN "aborted" ELSE "loaded"
    /\ UNCHANGED <<storage, lock, cfglock, config, now, pc, buf, out, codecVars, file>>

(* The State is built from the load result and the accept loop starts. *)
Listen ==
    /\ boot = "loaded"
    /\ storage' = InitialStore(rdb)
    /\ boot' = "listening"
    /\ UNCHANGED <<lock, cfglock, config, now, pc, buf, out, codecVars, file, rdb>>

(* A step of the handle thread of the client, or of the clock. *)
Serve ==
    /\ boot = "listening"
    /\ \/ \E w \in SnapConns :
             \/ Read(w) \/ Close(w) \/ ReadFail(w) \/ Write(w)
             \/ SetLock(w) \/ SetWrite(w)
             \/ GetLock(w) \/ GetWrite(w) \/ GetWriteExpired(w)
             \/ KeysLock(w) \/ KeysWrite(w)
             \/ ConfigLock(w) \/ ConfigWrite(w)
       \/ Tick

NextSnapshot ==
    \/ Load
    \/ Listen
    \/ Serve

SpecSnapshot == InitSnapshot /\ [][NextSnapshot]_vars

(***************************************************************************)
(*                               Properties                                *)
(***************************************************************************)
Keys == {K_a}

(* The pc values at which a connection is inside a storage-lock arm. *)
CriticalPcs == {"set_write", "get_write", "get_write_expired", "keys_write"}

(* The step in which connection w takes the storage lock for its GET. *)
GetStep(w) == pc[w] = "get_lock" /\ pc'[w] # "get_lock"

(* The step in which connection w takes the storage lock for its SET. *)
SetStep(w) == pc[w] = "set_lock" /\ pc'[w] # "set_lock"

(***************************************************************************)
(* C1: the reply to GET k is the bulk encoding of the stored value exactly *)
(* when the store holds an entry for k that has no expiry or whose expiry  *)
(* lies strictly after the clock reading at execution; otherwise it is the *)
(* null bulk string.  An entry without expiry is therefore always          *)
(* returned.                                                               *)
(***************************************************************************)
C1_GetReply ==
    [][\A w \in Conns :
          GetStep(w) =>
             LET k == Resolved[buf[w]].key
                 live == /\ k \in DOMAIN storage
                         /\ \/ storage[k].expiry = NoExpiry
                            \/ now < storage[k].expiry
             IN  out'[w] = IF live
                           THEN <<DOLLAR>> \o FormatNat(Len(storage[k].value))
                                    \o CRLF \o storage[k].value \o CRLF
                           ELSE <<DOLLAR, MINUS, 49, CR, LF>>]_vars

(* A GET is about to write the value of an entry that carries an expiry. *)
C1_Witness ==
    \E w \in Conns :
        /\ pc[w] = "get_write"
        /\ K_a \in DOMAIN storage
        /\ storage[K_a].expiry # NoExpiry
        /\ out[w] = serialize_to_bulk_string(V_x)

(***************************************************************************)
(* C2: expiry is lazy and terminal.  SET k v PX 0 stores an expiry equal   *)
(* to the clock reading, so the entry is expired at once.  The first GET   *)
(* that finds k expired replies with the null bulk string and removes the  *)
(* entry before it releases the lock; a GET of a missing key replies null  *)
(* and leaves the store alone; an expired entry stays expired as time      *)
(* passes; and a key enters the store only through a SET of that key.      *)
(***************************************************************************)
C2_LazyTerminalExpiry ==
    [][/\ \A w \in Conns :
            LET k == Resolved[buf[w]].key
                px == Resolved[buf[w]].px
            IN  /\ (SetStep(w) /\ px = 0) =>
                      /\ storage'[k].expiry = now
                      /\ storage'[k].expiry <= now'
                /\ (GetStep(w) /\ k \in DOMAIN storage
                       /\ storage[k].expiry # NoExpiry
                       /\ storage[k].expiry <= now) =>
                      /\ pc'[w] = "get_write_expired"
                      /\ out'[w] = <<DOLLAR, MINUS, 49, CR, LF>>
                /\ (pc[w] = "get_write_expired" /\ pc'[w] # "get_write_expired") =>
                      /\ k \notin DOMAIN storage'
                      /\ lock = w
                /\ (GetStep(w) /\ k \notin DOMAIN storage) =>
                      /\ out'[w] = <<DOLLAR, MINUS, 49, CR, LF>>
                      /\ storage' = storage
       /\ \A k \in Keys :
            /\ (k \in DOMAIN storage /\ k \in DOMAIN storage'
                   /\ storage'[k] = storage[k]
                   /\ storage[k].expiry # NoExpiry
                   /\ storage[k].expiry <= now) => storage'[k].expiry <= now'
            /\ (k \notin DOMAIN storage /\ k \in DOMAIN storage') =>
                  \E w \in Conns : SetStep(w) /\ Resolved[buf[w]].key = k]_vars

(***************************************************************************)
(* A GET found an entry expired at clock reading 0: only SET .. PX 0 can   *)
(* have stored it.                                                         *)
(***************************************************************************)
C2_Witness ==
    \E w \in Conns :
        /\ pc[w] = "get_write_expired"
        /\ now = 0
        /\ out[w] = NullBulk

(***************************************************************************)
(* C3: SET k v replaces whatever the store held for k: afterwards the      *)
(* entry is (no expiry, v) without PX, whatever expiry the old entry had,  *)
(* and (clock reading + ms, v) with PX ms, whatever the old value was.     *)
(* The reply is always +OK.                                                *)
(***************************************************************************)
C3_SetReplaces ==
    [][\A w \in Conns :
          SetStep(w) =>
             LET k == Resolved[buf[w]].key
                 v == Resolved[buf[w]].value
                 px == Resolved[buf[w]].px
             IN  /\ DOMAIN storage' = DOMAIN storage \cup {k}
                 /\ storage'[k].value = v
                 /\ storage'[k].expiry = IF px = NoPx THEN NoExpiry ELSE now + px
                 /\ out'[w] = <<PLUS, 79, 75, CR, LF>>]_vars

(* A SET without PX is in its arm at the last clock reading: the entry it *)
(* stored has no expiry.                                                  *)
C3_Witness ==
    \E w \in Conns :
        /\ pc[w] = "set_write"
        /\ buf[w] = "set_y"
        /\ storage[K_a] = [expiry |-> NoExpiry, value |-> V_y]
        /\ now = MaxTime

(***************************************************************************)
(* C4: a command's reads and writes of the store are atomic.  No two       *)
(* connections are inside a storage-lock arm together; while a GET is      *)
(* between its expiry check and its removal the entry it found is still    *)
(* there and still expired; while a SET is in its arm the entry is the one *)
(* it stored; and the reply a GET is writing is the one the current store  *)
(* gives.                                                                  *)
(***************************************************************************)
C4_Atomic ==
    /\ \A w1, w2 \in Conns :
          (w1 # w2 /\ pc[w1] \in CriticalPcs) => pc[w2] \notin CriticalPcs
    /\ \A w \in Conns :
          LET c == Resolved[buf[w]]
          IN  /\ pc[w] = "get_write_expired" =>
                    /\ c.key \in DOMAIN storage
                    /\ storage[c.key].expiry # NoExpiry
                    /\ storage[c.key].expiry <= now
              /\ pc[w] = "set_write" =>
                    /\ c.key \in DOMAIN storage
                    /\ storage[c.key].value = c.value
                    /\ (storage[c.key].expiry = NoExpiry) = (c.px = NoPx)
              /\ pc[w] = "get_write" =>
                    IF c.key \in DOMAIN storage
                    THEN out[w] = serialize_to_bulk_string(storage[c.key].value)
                    ELSE out[w] = NullBulk

(***************************************************************************)
(* A SET of the key waits for the lock while a GET of the same key is      *)
(* between its expiry check and its removal.                               *)
(***************************************************************************)
C4_Witness ==
    \E w1, w2 \in Conns :
        /\ pc[w1] = "get_write_expired"
        /\ pc[w2] = "set_lock"
        /\ Resolved[buf[w2]].key = Resolved[buf[w1]].key

(***************************************************************************)
(* C5: the storage lock is never held during a socket write: in every     *)
(* reachable state in which a connection is writing the reply of SET, GET  *)
(* or KEYS, that connection does not hold the storage lock.                *)
(***************************************************************************)
C5_NoLockWhileWriting ==
    \A w \in Conns : pc[w] \in CriticalPcs => lock # w

(***************************************************************************)
(* C6: a decode error (a byte that is no RESP tag, a non-numeric length or *)
(* count, a bulk length that contradicts the payload) is answered with     *)
(* -Error and the connection stays open: the connection that read such a   *)
(* buffer is writing -Error, never closed or unwound.                      *)
(***************************************************************************)
C6_DecodeErrorKeepsConnection ==
    \A w \in Conns :
        buf[w] \in MalformedRequests =>
            /\ pc[w] = "write"
            /\ out[w] = ErrorReply

(***************************************************************************)
(* C7: a well-formed array of bulk strings with an unknown keyword or an   *)
(* element count that fits no command is answered with -Error, the store   *)
(* is not touched and the connection stays open.                           *)
(***************************************************************************)
C7_ResolutionError ==
    \A w \in Conns :
        buf[w] \in UnresolvableRequests =>
            /\ pc[w] = "write"
            /\ out[w] = ErrorReply

(***************************************************************************)
(* C8: two commands sent back to back in one buffer decode as two          *)
(* commands: the first decode yields the first array with exactly its      *)
(* declared elements and reports the length of its encoding as consumed;   *)
(* decoding what is left yields the second array.                          *)
(***************************************************************************)
C8_Pipelining ==
    cin.kind = "pipeline" =>
        /\ cphase \in {"decoded", "rest"} =>
              /\ cres.tag = "some"
              /\ cres.obj = ArrayOf(cin.strs)
              /\ cres.consumed = Len(serialize_to_array(cin.strs))
        /\ cphase = "rest" =>
              /\ cres2.tag = "some"
              /\ cres2.obj = ArrayOf(cin.more)

(***************************************************************************)
(* C9: decoding the encoding of a simple string, a bulk string (the empty  *)
(* one included) or an array of bulk strings recovers the value, and the   *)
(* consumed count is the length of the encoding.                           *)
(***************************************************************************)
C9_RoundTrip ==
    (cin.kind \in ValueKinds /\ cphase \in {"decoded", "rest"}) =>
        /\ cres.tag = "some"
        /\ cres.obj = ValueOf(cin)
        /\ cres.consumed = Len(cwire)

(***************************************************************************)
(* C10: a bulk-string frame whose declared length differs from the number  *)
(* of payload bytes before its final "\r\n" never decodes to a garbled     *)
(* value: the decode fails, or at most yields the declared number of bytes *)
(* that follow the length line, those being followed by "\r\n".            *)
(***************************************************************************)
C10_BulkLengthMismatch ==
    (/\ cin.kind = "frame"
     /\ cphase \in {"decoded", "rest"}
     /\ cin.declared # Len(cin.payload)
     /\ cres.tag = "some") =>
        LET body == cin.payload \o CRLF
        IN  /\ cin.declared + 2 <= Len(body)
            /\ cres.obj = BulkString(cin.declared, SubSeq(body, 1, cin.declared))
            /\ SubSeq(body, cin.declared + 1, cin.declared + 2) = CRLF

(***************************************************************************)
(* C11: every CONFIG GET is answered.  For dir or dbfilename with the      *)
(* setting present the reply is the array [parameter, value]; for dir or   *)
(* dbfilename with the setting unset, and for any other parameter, the     *)
(* reply is -Error; the request never ends without a reply being written.  *)
(***************************************************************************)
C11_ConfigGetReplies ==
    [][\A w \in Conns :
          /\ (pc[w] = "read" /\ pc'[w] = "write"
                 /\ Resolved[buf'[w]].op = "ConfigGet") =>
                out'[w] = <<MINUS, 69, 114, 114, 111, 114, CR, LF>>
          /\ (pc[w] = "config_lock" /\ pc'[w] # "config_lock") =>
                LET param == Resolved[buf[w]].key
                    setting == IF param = S_dir THEN config.dir
                               ELSE config.db_filename
                IN  /\ pc'[w] = "config_write"
                    /\ out'[w] = IF setting.some
                                 THEN serialize_to_array(<<param, setting.val>>)
                                 ELSE <<MINUS, 69, 114, 114, 111, 114, CR, LF>>]_vars

(* The ways a load is said to report failure. *)
FailureKinds == {"unreadable", "short", "badmagic", "no_fa", "no_fb"}

(***************************************************************************)
(* C12: a snapshot load that reports failure degrades to an empty store.   *)
(* An unreadable file, a file shorter than 5 bytes or with a wrong magic,  *)
(* and a file without the 0xFA or the 0xFB opcode make the load return     *)
(* Err; whenever the load returned Err the process goes on to listen and   *)
(* the store it starts with is empty, the metadata decoded before the      *)
(* failure notwithstanding.                                                *)
(***************************************************************************)
C12_LoadFailureEmptyStore ==
    [][/\ (boot = "start" /\ boot' # "start" /\ file.kind \in FailureKinds) =>
             /\ rdb'.tag = "err"
             /\ boot' = "loaded"
       /\ (boot = "loaded" /\ boot' # "loaded" /\ rdb.tag = "err") =>
             /\ boot' = "listening"
             /\ DOMAIN storage' = {}]_vars

(* The process listens with an empty store after a file without 0xFB. *)
C12_Witness ==
    /\ boot = "listening"
    /\ file.kind = "no_fb"
    /\ rdb.tag = "err"
    /\ storage = EmptyStore

(***************************************************************************)
(* C13: a truncated snapshot and a snapshot using an unimplemented variant *)
(* (length with top bits 10, integer sub-encoding 3, a type flag other     *)
(* than 0) never end the process: the load is abandoned and main goes on.  *)
(***************************************************************************)
C13_MalformedSnapshotStarts ==
    file.kind \in {"truncated", "unimplemented"} => boot # "aborted"

(* The value and expiry a well-formed snapshot gives key k. *)
LastEntry(entries, k) ==
    entries[CHOOSE i \in 1..Len(entries) :
                /\ entries[i].key = k
                /\ \A j \in (i + 1)..Len(entries) : entries[j].key # k]

(***************************************************************************)
(* C14: a well-formed snapshot of N plain-string entries loads: the        *)
(* decoder consumes exactly the bytes of every entry (it stops at the 0xFF *)
(* that follows them), the store maps every key to its value, and an entry *)
(* without expiry opcode has no expiry.                                    *)
(***************************************************************************)
C14_WellFormedSnapshotLoads ==
    (file.kind = "wellformed" /\ boot # "start") =>
        /\ rdb.tag = "ok"
        /\ rdb.pos = Len(file.data) - 1
        /\ DOMAIN rdb.storage = {file.entries[i].key : i \in 1..Len(file.entries)}
        /\ \A k \in DOMAIN rdb.storage :
              /\ rdb.storage[k].value = LastEntry(file.entries, k).value
              /\ LastEntry(file.entries, k).kind = "none" =>
                    rdb.storage[k].expiry = NoExpiry

(* The step in which connection w takes the storage lock for its KEYS. *)
KeysStep(w) == pc[w] = "keys_lock" /\ pc'[w] # "keys_lock"

(* Every listing of the set S: each element exactly once. *)
Listings(S) ==
    {ls \in [1..Cardinality(S) -> S] : \A i, j \in 1..Cardinality(S) : ls[i] = ls[j] => i = j}

(***************************************************************************)
(* C15: KEYS * replies with an array whose declared count is the number of *)
(* entries of the mapping and which lists every key exactly once, entries  *)
(* whose expiry has passed included; KEYS with any other pattern replies   *)
(* with the empty array, even for a pattern equal to a key.  KEYS never    *)
(* changes the store.                                                      *)
(***************************************************************************)
C15_Keys ==
    [][\A w \in Conns :
          /\ KeysStep(w) =>
                /\ storage' = storage
                /\ IF Resolved[buf[w]].key = <<STAR>>
                   THEN \E ls \in Listings(DOMAIN storage) :
                           out'[w] = <<STAR>> \o FormatNat(Cardinality(DOMAIN storage))
                                        \o CRLF
                                        \o FlattenSeq([i \in 1..Len(ls) |->
                                               <<DOLLAR>> \o FormatNat(Len(ls[i])) \o CRLF
                                                   \o ls[i] \o CRLF])
                   ELSE out'[w] = <<STAR, 48, CR, LF>>
          /\ (pc[w] = "keys_write" /\ pc'[w] # "keys_write") => storage' = storage]_vars

(***************************************************************************)
(* KEYS * is writing a reply of two keys while the mapping holds an entry  *)
(* whose expiry has passed.                                                *)
(***************************************************************************)
C15_Witness ==
    \E w \in Conns :
        /\ pc[w] = "keys_write"
        /\ buf[w] = "keys_star"
        /\ Cardinality(DOMAIN storage) = 2
        /\ \E k \in DOMAIN storage :
              storage[k].expiry # NoExpiry /\ storage[k].expiry <= now
        /\ \E ls \in Listings(DOMAIN storage) : out[w] = serialize_to_array(ls)

(***************************************************************************)
(* C16: no store operation blocks indefinitely.  Under fair scheduling a   *)
(* SET, GET or KEYS that a connection has started eventually takes the     *)
(* storage lock and completes, even when the client of another connection  *)
(* never reads its replies and its thread stays in a socket write.         *)
(***************************************************************************)
C16_NoIndefiniteBlocking ==
    \A w \in Readers :
        (pc[w] \in {"set_lock", "get_lock", "keys_lock"}) ~> (pc[w] = "read")

(***************************************************************************)
(* C17: the requests of one connection are executed one at a time, in      *)
(* arrival order.  A connection reads a request only when it has none in   *)
(* progress: its previous reply is written and it holds no lock.  A reply  *)
(* is only ever produced for the request in progress, and the store is     *)
(* only changed by a connection on behalf of its request in progress.      *)
(* Requests of different connections interleave between those steps.       *)
(***************************************************************************)
C17_PerConnectionOrder ==
    [][/\ \A w \in Conns :
            /\ (buf'[w] # buf[w] /\ buf'[w] # NoBuf) =>
                  /\ pc[w] = "read"
                  /\ buf[w] = NoBuf
                  /\ out[w] = <<>>
                  /\ lock # w
                  /\ cfglock # w
            /\ (out'[w] # out[w] /\ out'[w] # <<>>) =>
                  /\ out[w] = <<>>
                  /\ buf'[w] # NoBuf
                  /\ pc'[w] \notin {"read", "closed", "panicked"}
            /\ (pc[w] # "read" /\ pc'[w] = "read") =>
                  /\ buf'[w] = NoBuf
                  /\ out'[w] = <<>>
                  /\ lock' # w
                  /\ cfglock' # w
       /\ storage' # storage =>
             \E w \in Conns :
                 /\ buf[w] # NoBuf
                 /\ pc[w] \in {"set_lock", "get_write_expired"}
                 /\ pc'[w] # pc[w]]_vars

(***************************************************************************)
(* One connection is writing the reply of its SET while the other is       *)
(* writing the reply of a request that it read in between.                 *)
(***************************************************************************)
C17_Witness ==
    \E w1, w2 \in Conns :
        /\ pc[w1] = "set_write"
        /\ pc[w2] = "write"
        /\ out[w2] = PONG

(* The command an upper-case spelling stands for. *)
ExpectedCmd(c) ==
    CASE c[1] = S_PING -> [op |-> "Ping", key |-> <<>>, value |-> <<>>, px |-> NoPx]
      [] c[1] = S_ECHO -> [op |-> "Echo", key |-> c[2], value |-> <<>>, px |-> NoPx]
      [] c[1] = S_KEYS -> [op |-> "Keys", key |-> c[2], value |-> <<>>, px |-> NoPx]
      [] c[1] = S_GET  -> [op |-> "Get", key |-> c[2], value |-> <<>>, px |-> NoPx]
      [] OTHER -> [op |-> "Set", key |-> c[2], value |-> c[3],
                   px |-> IF Len(c) = 5 THEN 1 ELSE NoPx]

(***************************************************************************)
(* C18: keyword matching is case-insensitive.  A frame whose keyword (and  *)
(* PX option) is spelled in any mixture of upper and lower case resolves   *)
(* to the same command, with the same arguments, as the upper-case         *)
(* spelling.                                                               *)
(***************************************************************************)
C18_CaseInsensitive ==
    (cin.kind = "command" /\ cphase = "resolved") =>
        /\ ccmd = ExpectedCmd(cin.more)
        /\ ccmd = from_buffer(serialize_to_array(cin.more))

(* PiNg has resolved to Ping. *)
C18_Witness ==
    /\ cin.kind = "command"
    /\ cphase = "resolved"
    /\ cin.strs = <<<<80, 105, 78, 103>>>>
    /\ ccmd.op = "Ping"

(***************************************************************************)
(* C19: after startup the mapping changes only by SET k, which inserts or  *)
(* replaces the entry of k and of no other key, and by GET k on an expired *)
(* entry, which removes the entry of k and of no other key.  Every other   *)
(* step (PING, ECHO, KEYS, CONFIG GET, GET of a missing or unexpired key,  *)
(* rejected requests) leaves every entry as it was.                        *)
(***************************************************************************)
C19_EntryLifecycle ==
    [][(boot = "listening" /\ storage' # storage) =>
          \E w \in Conns :
              LET c == Resolved[buf[w]]
              IN  /\ buf[w] # NoBuf
                  /\ pc'[w] # pc[w]
                  /\ \A k \in (DOMAIN storage \cup DOMAIN storage') \ {c.key} :
                        /\ k \in DOMAIN storage
                        /\ k \in DOMAIN storage'
                        /\ storage'[k] = storage[k]
                  /\ \/ /\ pc[w] = "set_lock"
                        /\ c.op = "Set"
                        /\ c.key \in DOMAIN storage'
                     \/ /\ pc[w] = "get_write_expired"
                        /\ c.op = "Get"
                        /\ c.key \in DOMAIN storage
                        /\ storage[c.key].expiry # NoExpiry
                        /\ storage[c.key].expiry <= now
                        /\ c.key \notin DOMAIN storage']_vars

(* A SET of a has been executed on a store that also holds b. *)
C19_Witness ==
    \E w \in Conns :
        /\ boot = "listening"
        /\ pc[w] = "set_write"
        /\ Resolved[buf[w]].key = K_a
        /\ K_b \in DOMAIN storage
        /\ K_a \in DOMAIN storage

LengthPrefixes == {<<b1, b2>> : b1 \in 64..127, b2 \in 0..255}

LengthCases == {CodecCase("length", <<>>, <<>>, 0, p) : p \in LengthPrefixes}

(* File content after the prefix: as many bytes as a u8 size can ask for. *)
Filler == [i \in 1..255 |-> 97]

InitLength ==
    /\ storage = EmptyStore
    /\ lock = NoConn
    /\ cfglock = NoConn
    /\ config = [dir |-> Unset, db_filename |-> Unset]
    /\ now = 0
    /\ pc = [w \in Conns |-> "read"]
    /\ buf = [w \in Conns |-> NoBuf]
    /\ out = [w \in Conns |-> <<>>]
    /\ cin \in LengthCases
    /\ cphase = "input"
    /\ cwire = <<>>
    /\ cres = LenPanic
    /\ cres2 = ObjPanic
    /\ ccmd = CmdErr
    /\ file = NoFile
    /\ boot = "listening"
    /\ rdb = LoadErr

(* The bytes at the read position of the file. *)
PlaceLength ==
    /\ cphase = "input"
    /\ cwire' = cin.payload \o Filler
    /\ cphase' = "encoded"
    /\ UNCHANGED <<storage, lock, cfglock, config, now, pc, buf, out, cin, cres, cres2, ccmd,
                   snapVars>>

(* decode_length at the read position. *)
DecodeLength ==
    /\ cphase = "encoded"
    /\ cres' = decode_length(cwire)
    /\ cphase' = "decoded"
    /\ UNCHANGED <<storage, lock, cfglock, config, now, pc, buf, out, cin, cwire, cres2, ccmd,
                   snapVars>>

(* decode_object at the read position. *)
DecodeString ==
    /\ cphase = "decoded"
    /\ cres2' = decode_object(cwire)
    /\ cphase' = "decoded2"
    /\ UNCHANGED <<storage, lock, cfglock, config, now, pc, buf, out, cin, cwire, cres, ccmd,
                   snapVars>>

NextLength == PlaceLength \/ DecodeLength \/ DecodeString

SpecLength == InitLength /\ [][NextLength]_vars

(***************************************************************************)
(* The 14-bit number of a prefix: the low 6 bits of the first byte and all *)
(* 8 bits of the second byte, with the first byte's bits on top (the order *)
(* of the file format) or at the bottom (the order of the source's         *)
(* expression, computed without a width).                                  *)
(***************************************************************************)
FourteenBit(p) == {(p[1] % 64) * 256 + p[2], (p[1] % 64) + p[2] * 64}

(***************************************************************************)
(* C21: when the top two bits of the leading byte are 01, the decoded      *)
(* length is the 14-bit number formed from the low 6 bits of the first     *)
(* byte and all 8 bits of the second byte, without overflow or loss of     *)
(* bits; 2 bytes are consumed for the length; and distinct encodings give  *)
(* distinct lengths.  decode_object reads a string of that length.         *)
(***************************************************************************)
C21_FourteenBitLength ==
    /\ (cin.kind = "length" /\ cphase \in {"decoded", "decoded2"}) =>
          /\ cres.tag = "ok"
          /\ cres.consumed = 2
          /\ cres.size \in FourteenBit(cin.payload)
          /\ \A p \in {<<64, 0>>, <<65, 0>>, <<64, 1>>, <<64, 4>>, <<127, 255>>} :
                p # cin.payload => decode_length(p).size # cres.size
    /\ (cin.kind = "length" /\ cphase = "decoded2" /\ cres2.tag = "str") =>
          /\ Len(cres2.str) = cres.size
          /\ cres2.consumed = cres.size + 2

(***************************************************************************)
(* C22: no worker fails while it holds the store lock.  A worker ends      *)
(* abnormally only from the read position (socket read failure, decoding,  *)
(* resolution), where it holds no lock; that step changes neither the lock *)
(* nor the store; and the lock is only ever held by a live worker inside   *)
(* its critical section, so it stays usable by the other connections.      *)
(***************************************************************************)
C22_NoFailureUnderLock ==
    [][/\ \A w \in Conns :
            (pc[w] # "panicked" /\ pc'[w] = "panicked") =>
                /\ pc[w] = "read"
                /\ lock # w
                /\ lock' = lock
                /\ storage' = storage
       /\ \A w \in Conns : pc'[w] \in {"panicked", "closed"} => lock' # w
       /\ lock' # NoConn => pc'[lock'] \in CriticalPcs]_vars

(***************************************************************************)
(* One worker has ended abnormally on a malformed request and the other    *)
(* holds the lock, replying to a GET with a stored value.                  *)
(***************************************************************************)
C22_Witness ==
    \E w1, w2 \in Conns :
        /\ pc[w1] = "panicked"
        /\ buf[w1] \in MalformedRequests
        /\ pc[w2] = "get_write"
        /\ lock = w2
        /\ Has(storage, Cmd(w2).key)

(***************************************************************************)
(* C23: every entry loaded from the snapshot with an expiry opcode (the    *)
(* only entries the decoder stores with an expiry) gets an expiry instant  *)
(* that is not later than the moment of loading, whatever the timestamp in *)
(* the file.  Hence a GET that finds such an entry still in the store      *)
(* replies absent ($-1) and then removes the entry: its value is not       *)
(* returned.                                                               *)
(***************************************************************************)
C23_LoadedExpiryInPast ==
    [][/\ (boot' # "start" /\ rdb'.tag = "ok") =>
             \A k \in DOMAIN rdb'.storage :
                 rdb'.storage[k].expiry # NoExpiry => rdb'.storage[k].expiry <= now'
       /\ \A w \in Conns :
             LET k == Cmd(w).key
             IN  /\ (/\ boot = "listening"
                     /\ rdb.tag = "ok"
                     /\ GetStep(w)
                     /\ Has(rdb.storage, k)
                     /\ rdb.storage[k].expiry # NoExpiry
                     /\ Has(storage, k)
                     /\ storage[k] = rdb.storage[k]) =>
                        /\ out'[w] = NullBulk
                        /\ pc'[w] = "get_write_expired"
                 /\ (pc[w] = "get_write_expired" /\ pc'[w] # pc[w]) =>
                        ~Has(storage', k)]_vars

(***************************************************************************)
(* A well-formed snapshot gave a its value with a 0xFC timestamp, and the  *)
(* GET of a has been answered $-1; the entry is about to be removed.       *)
(***************************************************************************)
C23_Witness ==
    \E w \in Conns :
        /\ boot = "listening"
        /\ file.kind = "wellformed"
        /\ file.entries = <<SnapEntry(K_a, V_y, "ms", 1)>>
        /\ rdb.tag = "ok"
        /\ Has(rdb.storage, K_a)
        /\ rdb.storage[K_a].expiry # NoExpiry
        /\ pc[w] = "get_write_expired"
        /\ Cmd(w).key = K_a
        /\ Has(storage, K_a)
        /\ storage[K_a] = rdb.storage[K_a]
        /\ out[w] = NullBulk

====
